---- MODULE Spec2Model ----
(***************************************************************************)
(* rules-doctor: the run of src/index.ts main() over the checker of        *)
(* src/checker.ts.  One action per step between two awaits of the code.    *)
(*                                                                         *)
(* Text is a sequence of fragments (tokens).  The fragment FNF stands for  *)
(* the characters "File not found", so that String.includes is a search    *)
(* for that fragment, and "/" and "!" and "(" are the characters of that   *)
(* name.  An optional field that is undefined is the empty sequence: the   *)
(* code tests these fields for truthiness only (`if (failure.error)`,      *)
(* `!failure.requires || failure.requires.length === 0`, `check.exclude    *)
(* &&`), and an empty string is as falsy as undefined.                     *)
(***************************************************************************)
EXTENDS Naturals, Sequences, FiniteSets

VARIABLES
    config,          \* the loaded Config (index.ts:214), never written again
    argv,            \* process.argv[2]; "" when no argument is given
    pc,              \* where main() stands
    repositories,    \* getRepositories' array, then main's `repositories`
    checks,          \* main's `checks` (index.ts:220-222)
    banner,          \* the count printed by checker.ts:112
    ri,              \* index of the repository checkAllRepositories is at
    ci,              \* index of the check checkRepository is at (0: none yet)
    results,         \* checkRepository's `results` for the current repository
    allResults,      \* checkAllRepositories' `allResults`
    response,        \* fetchFileContent's `response` (main branch)
    masterResponse,  \* fetchFileContent's `masterResponse`
    requests,        \* the network requests issued so far
    discovery,       \* how fetchBazelContribRepositories ended
    report,          \* <<processResults(results)>> once reportResults ran
    exitCode,        \* <<status>> once process.exit was called, <<>> before
    exitPath         \* which process.exit call ended the run

vars == <<config, argv, pc, repositories, checks, banner, ri, ci, results,
          allResults, response, masterResponse, requests, discovery, report,
          exitCode, exitPath>>

----------------------------------------------------------------------------
(* Bounds of the model *)

\* longest static repository list of a configuration
MaxStatic == 1
\* longest result list handed to processResults on its own
MaxResults == 3

----------------------------------------------------------------------------
(* Text *)

FNF == "File not found"

Includes(s, frag) == \E i \in DOMAIN s : s[i] = frag

SeqsUpTo(S, n) == UNION {[1..k -> S] : k \in 0..n}

\* [...new Set(s)]: the first occurrence of each element, in order
RECURSIVE Dedupe(_)
Dedupe(s) ==
    IF s = <<>> THEN <<>>
    ELSE LET init == Dedupe(SubSeq(s, 1, Len(s) - 1))
             last == s[Len(s)]
         IN IF Includes(init, last) THEN init ELSE Append(init, last)

----------------------------------------------------------------------------
(* The inputs of a run *)

RA == <<"o", "/", "a">>
RB == <<"o", "/", "b">>
\* an identifier that is not in "owner/repo" form
RX == <<"x">>

StaticIds == {RA, RB, RX}
\* what the GitHub search answers when it answers
DiscoveredRepos == <<RA>>

CheckNames == <<"A", "B">>
\* the `requires` lists of a check: of check A, of a name no check has, of
\* both
RequiresLists ==
    {<<[check |-> "A"]>>, <<[check |-> "Z"]>>, <<[check |-> "Z"], [check |-> "A"]>>}
Files == {<<"f">>, <<FNF>>}
\* x, its negation, and two unterminated groups
Patterns == {<<"x">>, <<"!", "x">>, <<"x", "(">>, <<FNF, "(">>}
Contents == {<<"x">>, <<"y">>}
Args == {"", "B", "Q"}

DefaultCheck(n) ==
    [name |-> n, file |-> <<"f">>, pattern |-> <<"x">>, enabled |-> TRUE,
     exclude |-> <<>>, requires |-> <<>>]

\* the FileChecks of a configuration: the default and every change of one
\* of its fields
CheckPool(n) ==
    {[DefaultCheck(n) EXCEPT !.file = f] : f \in Files}
    \cup {[DefaultCheck(n) EXCEPT !.pattern = p] : p \in Patterns}
    \cup {[DefaultCheck(n) EXCEPT !.enabled = FALSE]}
    \cup {[DefaultCheck(n) EXCEPT !.exclude = <<[repository |-> RA]>>]}
    \cup {[DefaultCheck(n) EXCEPT !.requires = q] : q \in RequiresLists}

\* check lists with the names of CheckNames, in that order.  A name is one
\* check's: the report groups failures by check name and reads the check of
\* a group off its first failure (index.ts:142-145)
CheckLists ==
    UNION {{c \in [1..k -> UNION {CheckPool(CheckNames[i]) : i \in 1..k}] :
              \A i \in 1..k : c[i].name = CheckNames[i]} :
           k \in 0..Len(CheckNames)}

Configs ==
    [dynamicEnabled : BOOLEAN, staticEnabled : BOOLEAN,
     list : SeqsUpTo(StaticIds, MaxStatic), checks : CheckLists]

----------------------------------------------------------------------------
(* checker.ts *)

\* the answers of fetch(): a response with its `ok` and its body, or a
\* rejection; NoResponse is a request not made
NoResponse == [st |-> "none", body |-> <<>>]
Rejected == [st |-> "rejected", body |-> <<>>]
OkResponses == {[st |-> "ok", body |-> c] : c \in Contents}
NotOkResponses == {[st |-> "notok", body |-> <<"404: Not Found">>]}
Responses == OkResponses \cup NotOkResponses \cup {Rejected}

\* the request of checker.ts:20 and those of checker.ts:49 and 53
\* (a content request is recorded by the pair it is for, whatever the branch)
SearchRequest == [to |-> "api.github.com", repo |-> <<>>, check |-> ""]
ContentRequest(repoPath, check) ==
    [to |-> "raw.githubusercontent.com", repo |-> repoPath, check |-> check.name]

\* repoPath.split('/'): the fragments before the first "/" and those between
\* the first and the second
SlashAt(s) == {i \in DOMAIN s : s[i] = "/"}
FirstSlash(s) == CHOOSE i \in SlashAt(s) : \A j \in SlashAt(s) : i <= j
Owner(s) == IF SlashAt(s) = {} THEN s ELSE SubSeq(s, 1, FirstSlash(s) - 1)
RepoName(s) ==
    IF SlashAt(s) = {} THEN <<>>
    ELSE LET rest == SubSeq(s, FirstSlash(s) + 1, Len(s))
         IN Owner(rest)

ValidRepoPath(repoPath) == Owner(repoPath) # <<>> /\ RepoName(repoPath) # <<>>

InvalidFormatMessage(repoPath) ==
    <<"Invalid repository format: ">> \o repoPath \o <<". Expected \"owner/repo\"">>

\* String(error) of the Error thrown at checker.ts:55
NotFoundError(filePath) == <<"Error: ", FNF, ": ">> \o filePath
\* String(error) of fetch's rejection
NetworkError == <<"TypeError: fetch failed">>

FailedToFetch(filePath, cause) == <<"Failed to fetch ">> \o filePath \o <<": ">> \o cause

\* mutant: the master branch answered, and the text of the main branch's
\* response is returned
fetchFileContent_mainBody(repoPath, filePath, resp, masterResp) ==
    IF ~ValidRepoPath(repoPath)
    THEN [threw |-> TRUE, content |-> <<>>, message |-> InvalidFormatMessage(repoPath)]
    ELSE IF resp.st = "rejected"
    THEN [threw |-> TRUE, content |-> <<>>,
          message |-> FailedToFetch(filePath, NetworkError)]
    ELSE IF resp.st = "ok"
    THEN [threw |-> FALSE, content |-> resp.body, message |-> <<>>]
    ELSE IF masterResp.st = "rejected"
    THEN [threw |-> TRUE, content |-> <<>>,
          message |-> FailedToFetch(filePath, NetworkError)]
    ELSE IF masterResp.st = "ok"
    THEN [threw |-> FALSE, content |-> resp.body, message |-> <<>>]
    ELSE [threw |-> TRUE, content |-> <<>>,
          message |-> FailedToFetch(filePath, NotFoundError(filePath))]

\* fetchFileContent, given the answers to the requests it made: what it
\* returns, or the message of the Error it throws
fetchFileContent(repoPath, filePath, resp, masterResp) ==
    IF ~ValidRepoPath(repoPath)
    THEN [threw |-> TRUE, content |-> <<>>, message |-> InvalidFormatMessage(repoPath)]
    ELSE IF resp.st = "rejected"
    THEN [threw |-> TRUE, content |-> <<>>,
          message |-> FailedToFetch(filePath, NetworkError)]
    ELSE IF resp.st = "ok"
    THEN [threw |-> FALSE, content |-> resp.body, message |-> <<>>]
    ELSE IF masterResp.st = "rejected"
    THEN [threw |-> TRUE, content |-> <<>>,
          message |-> FailedToFetch(filePath, NetworkError)]
    ELSE IF masterResp.st = "ok"
    THEN [threw |-> FALSE, content |-> masterResp.body, message |-> <<>>]
    ELSE [threw |-> TRUE, content |-> <<>>,
          message |-> FailedToFetch(filePath, NotFoundError(filePath))]

\* new RegExp(pattern) throws on an unterminated group
RegExpValid(pattern) == ~Includes(pattern, "(")
RegExpMessage(pattern) ==
    <<"Invalid regular expression: /">> \o pattern \o <<"/: Unterminated group">>
\* regex.test(content) for a pattern of literal fragments: a search
RegExpTest(pattern, content) ==
    \E i \in 0..Len(content) :
        /\ i + Len(pattern) <= Len(content)
        /\ \A j \in 1..Len(pattern) : content[i + j] = pattern[j]

runCheck(content, check) ==
    LET isNegated == check.pattern # <<>> /\ Head(check.pattern) = "!"
        pattern == IF isNegated THEN Tail(check.pattern) ELSE check.pattern
    IN IF ~RegExpValid(pattern)
       THEN [threw |-> TRUE, value |-> FALSE, message |-> RegExpMessage(pattern)]
       ELSE LET matches == RegExpTest(pattern, content)
            IN [threw |-> FALSE,
                value |-> IF isNegated THEN ~matches ELSE matches,
                message |-> <<>>]

\* mutant: any exclude list skips the check everywhere
Excluded_anyEntry(check, repoPath) == check.exclude # <<>>

Excluded(check, repoPath) ==
    check.exclude # <<>>
    /\ \E i \in DOMAIN check.exclude : check.exclude[i].repository = repoPath

PassResult(repoPath, check, passed) ==
    [repository |-> repoPath, check |-> check, filePath |-> check.file,
     passed |-> passed, error |-> <<>>,
     requires |-> IF passed THEN <<>> ELSE check.requires]

ErrorResult(repoPath, check, message) ==
    [repository |-> repoPath, check |-> check, filePath |-> check.file,
     passed |-> FALSE, error |-> message, requires |-> check.requires]

\* the try/catch of checkRepository (checker.ts:82-102) once
\* fetchFileContent ended as `fetched`
checkOutcome(repoPath, check, fetched) ==
    IF fetched.threw THEN ErrorResult(repoPath, check, fetched.message)
    ELSE LET r == runCheck(fetched.content, check)
         IN IF r.threw THEN ErrorResult(repoPath, check, r.message)
            ELSE PassResult(repoPath, check, r.value)

enabledChecks(cs) == SelectSeq(cs, LAMBDA c : c.enabled # FALSE)

----------------------------------------------------------------------------
(* index.ts: result processing *)

\* the two characters that pattern.replace(/\|/g, ...) puts for a "|"
EscapedPipe == "(backslash)|"

getFailureStatus(failure) ==
    IF failure.error # <<>>
    THEN IF Includes(failure.error, FNF)
         THEN [kind |-> "not found", message |-> <<FNF>>]
         ELSE [kind |-> "error", message |-> failure.error]
    ELSE LET escaped == [i \in DOMAIN failure.check.pattern |->
                           IF failure.check.pattern[i] = "|" THEN EscapedPipe
                           ELSE failure.check.pattern[i]]
         IN [kind |-> "pattern not matched",
             message |-> <<"Pattern (backtick)">> \o escaped \o <<"(backtick) not found">>]

\* allResults.find(...): the first Result of that check name and repository
FindResult(allRes, name, repoPath) ==
    LET hits == {i \in DOMAIN allRes : /\ allRes[i].check.name = name
                                       /\ allRes[i].repository = repoPath}
    IN IF hits = {} THEN <<>>
       ELSE <<allRes[CHOOSE i \in hits : \A j \in hits : i <= j]>>

\* mutant: the prerequisite's Result is looked up by check name alone
getFailedRequires_anyRepository(failure, allRes) ==
    IF failure.requires = <<>> THEN <<>>
    ELSE SelectSeq(failure.requires,
                   LAMBDA req :
                       LET hits == {i \in DOMAIN allRes :
                                       allRes[i].check.name = req.check}
                       IN hits # {}
                          /\ ~allRes[CHOOSE i \in hits : \A j \in hits : i <= j].passed)

getFailedRequires(failure, allRes) ==
    IF failure.requires = <<>> THEN <<>>
    ELSE SelectSeq(failure.requires,
                   LAMBDA req :
                       LET found == FindResult(allRes, req.check, failure.repository)
                       IN found # <<>> /\ ~found[1].passed)

EmptyMap == [k \in {} |-> <<>>]

\* mutant: the failure is put at the head of its bucket
AddFailure_prepend(byCheck, failure, allRes) ==
    LET name == failure.check.name
        repoMap == IF name \in DOMAIN byCheck THEN byCheck[name] ELSE EmptyMap
        list == IF failure.repository \in DOMAIN repoMap
                THEN repoMap[failure.repository] ELSE <<>>
        entry == [failure |-> failure, repo |-> failure.repository,
                  status |-> getFailureStatus(failure),
                  failedRequires |-> getFailedRequires(failure, allRes)]
        newRepoMap == [r \in DOMAIN repoMap \cup {failure.repository} |->
                         IF r = failure.repository THEN <<entry>> \o list
                         ELSE repoMap[r]]
    IN [n \in DOMAIN byCheck \cup {name} |->
          IF n = name THEN newRepoMap ELSE byCheck[n]]

\* one turn of the loop of processResults (index.ts:88-104)
AddFailure(byCheck, failure, allRes) ==
    LET name == failure.check.name
        repoMap == IF name \in DOMAIN byCheck THEN byCheck[name] ELSE EmptyMap
        list == IF failure.repository \in DOMAIN repoMap
                THEN repoMap[failure.repository] ELSE <<>>
        entry == [failure |-> failure, repo |-> failure.repository,
                  status |-> getFailureStatus(failure),
                  failedRequires |-> getFailedRequires(failure, allRes)]
        newRepoMap == [r \in DOMAIN repoMap \cup {failure.repository} |->
                         IF r = failure.repository THEN Append(list, entry)
                         ELSE repoMap[r]]
    IN [n \in DOMAIN byCheck \cup {name} |->
          IF n = name THEN newRepoMap ELSE byCheck[n]]

RECURSIVE GroupFailures(_, _)
GroupFailures(failedResults, allRes) ==
    IF failedResults = <<>> THEN EmptyMap
    ELSE AddFailure(GroupFailures(SubSeq(failedResults, 1, Len(failedResults) - 1),
                                  allRes),
                    failedResults[Len(failedResults)], allRes)

processResults(res) ==
    LET failedResults == SelectSeq(res, LAMBDA r : ~r.passed)
        passedCount == Len(SelectSeq(res, LAMBDA r : r.passed))
    IN [failedCount |-> Len(failedResults), passedCount |-> passedCount,
        byCheck |-> GroupFailures(failedResults, res)]

\* mutant: only a pattern mismatch counts as a failure
hasFailures_mismatchOnly(res) ==
    \E i \in DOMAIN res : ~res[i].passed /\ res[i].error = <<>>

\* results.some(result => !result.passed)
hasFailures(res) == \E i \in DOMAIN res : ~res[i].passed

----------------------------------------------------------------------------
(* index.ts: main *)

Init ==
    /\ config \in Configs
    /\ argv \in Args
    /\ pc = "getRepositories"
    /\ repositories = <<>>
    /\ checks = <<>>
    /\ banner = 0
    /\ ri = 1
    /\ ci = 0
    /\ results = <<>>
    /\ allResults = <<>>
    /\ response = NoResponse
    /\ masterResponse = NoResponse
    /\ requests = {}
    /\ discovery = "none"
    /\ report = <<>>
    /\ exitCode = <<>>
    /\ exitPath = "none"

\* process.exit(code) reached at `path`
Exit(code, path) ==
    /\ pc' = "exited"
    /\ exitCode' = <<code>>
    /\ exitPath' = path

\* the catch of main: any error that reaches it ends the run with status 1
Fatal == Exit(1, "catch")

\* getRepositories from line 29 on, with `repos` gathered so far
StaticRepositories(repos) ==
    LET all == IF config.staticEnabled THEN repos \o config.list ELSE repos
    IN IF all = <<>>
       THEN /\ Fatal
            /\ UNCHANGED repositories
       ELSE /\ repositories' = Dedupe(all)
            /\ pc' = "selectChecks"
            /\ UNCHANGED <<exitCode, exitPath>>

\* getRepositories when dynamic discovery is on: one search request, and
\* its error is not caught before main's catch
getRepositoriesDynamic ==
    /\ pc = "getRepositories"
    /\ config.dynamicEnabled
    /\ requests' = requests \cup {SearchRequest}
    /\ \/ /\ discovery' = "ok"
          /\ StaticRepositories(DiscoveredRepos)
       \/ /\ discovery' = "failed"
          /\ Fatal
          /\ UNCHANGED repositories
    /\ UNCHANGED <<config, argv, checks, banner, ri, ci, results, allResults,
                   response, masterResponse, report>>

getRepositoriesStatic ==
    /\ pc = "getRepositories"
    /\ ~config.dynamicEnabled
    /\ StaticRepositories(<<>>)
    /\ UNCHANGED <<config, argv, checks, banner, ri, ci, results, allResults,
                   response, masterResponse, requests, discovery, report>>

\* main, lines 219-232, up to the first await of checkAllRepositories
selectChecks ==
    /\ pc = "selectChecks"
    /\ LET selected == IF argv # ""
                       THEN SelectSeq(config.checks, LAMBDA c : c.name = argv)
                       ELSE config.checks
       IN IF argv # "" /\ selected = <<>>
          THEN /\ Exit(1, "unknown check")
               /\ UNCHANGED <<checks, banner>>
          ELSE /\ checks' = selected
               /\ banner' = Len(enabledChecks(selected))
               /\ pc' = "loop"
               /\ UNCHANGED <<exitCode, exitPath>>
    /\ UNCHANGED <<config, argv, repositories, ri, ci, results, allResults,
                   response, masterResponse, requests, discovery, report>>

\* checkRepository's loop takes the next check: skipped when excluded, an
\* error Result when the identifier is malformed, else the main request
nextCheck ==
    /\ pc = "loop"
    /\ ci < Len(checks)
    /\ ci' = ci + 1
    /\ response' = NoResponse
    /\ masterResponse' = NoResponse
    /\ LET repoPath == repositories[ri]
           check == checks[ci + 1]
       IN IF Excluded(check, repoPath)
          THEN UNCHANGED <<pc, results, requests>>
          ELSE IF ~ValidRepoPath(repoPath)
          THEN /\ results' = Append(results,
                      checkOutcome(repoPath, check,
                          fetchFileContent(repoPath, check.file, NoResponse, NoResponse)))
               /\ UNCHANGED <<pc, requests>>
          ELSE /\ pc' = "awaitMain"
               /\ requests' = requests \cup {ContentRequest(repoPath, check)}
               /\ UNCHANGED results
    /\ UNCHANGED <<config, argv, repositories, checks, banner, ri, allResults,
                   discovery, report, exitCode, exitPath>>

\* mutant: a rejected request is not caught by checkRepository and reaches
\* the catch of main
mainResponse_uncaught ==
    /\ pc = "awaitMain"
    /\ LET repoPath == repositories[ri]
           check == checks[ci]
       IN \E resp \in Responses :
            /\ response' = resp
            /\ \/ /\ resp.st = "ok"
                  /\ results' = Append(results,
                         checkOutcome(repoPath, check,
                             fetchFileContent(repoPath, check.file, resp, NoResponse)))
                  /\ pc' = "loop"
                  /\ UNCHANGED <<exitCode, exitPath>>
               \/ /\ resp.st = "notok"
                  /\ pc' = "awaitMaster"
                  /\ UNCHANGED <<results, exitCode, exitPath>>
               \/ /\ resp.st = "rejected"
                  /\ Fatal
                  /\ UNCHANGED results
    /\ UNCHANGED <<config, argv, repositories, checks, banner, ri, ci, allResults,
                   masterResponse, requests, discovery, report>>

\* the answer to the request for the main branch: the file, or the
\* request for the master branch, or a rejection
mainResponse ==
    /\ pc = "awaitMain"
    /\ LET repoPath == repositories[ri]
           check == checks[ci]
       IN \E resp \in Responses :
            /\ response' = resp
            /\ \/ /\ resp.st # "notok"
                  /\ results' = Append(results,
                         checkOutcome(repoPath, check,
                             fetchFileContent(repoPath, check.file, resp, NoResponse)))
                  /\ pc' = "loop"
               \/ /\ resp.st = "notok"
                  /\ pc' = "awaitMaster"
                  /\ UNCHANGED results
    /\ UNCHANGED <<config, argv, repositories, checks, banner, ri, ci, allResults,
                   masterResponse, requests, discovery, report, exitCode, exitPath>>

\* the answer to the request for the master branch
masterResponseArrives ==
    /\ pc = "awaitMaster"
    /\ LET repoPath == repositories[ri]
           check == checks[ci]
       IN \E resp \in Responses :
            /\ masterResponse' = resp
            /\ results' = Append(results,
                   checkOutcome(repoPath, check,
                       fetchFileContent(repoPath, check.file, response, resp)))
    /\ pc' = "loop"
    /\ UNCHANGED <<config, argv, repositories, checks, banner, ri, ci, allResults,
                   response, requests, discovery, report, exitCode, exitPath>>

\* checkRepository returns; checkAllRepositories takes the next repository
repositoryDone ==
    /\ pc = "loop"
    /\ ci = Len(checks)
    /\ allResults' = allResults \o results
    /\ results' = <<>>
    /\ ci' = 0
    /\ response' = NoResponse
    /\ masterResponse' = NoResponse
    /\ IF ri < Len(repositories)
       THEN /\ ri' = ri + 1
            /\ UNCHANGED pc
       ELSE /\ pc' = "report"
            /\ UNCHANGED ri
    /\ UNCHANGED <<config, argv, repositories, checks, banner, requests,
                   discovery, report, exitCode, exitPath>>

\* main, lines 234-239, up to the await of writeFile
reportResults ==
    /\ pc = "report"
    /\ report' = <<processResults(allResults)>>
    /\ pc' = "awaitWrite"
    /\ UNCHANGED <<config, argv, repositories, checks, banner, ri, ci, results,
                   allResults, response, masterResponse, requests, discovery,
                   exitCode, exitPath>>

\* writeFile settles: main exits with the run's status, or its catch with 1
writeDone ==
    /\ pc = "awaitWrite"
    /\ \/ Exit(IF hasFailures(allResults) THEN 1 ELSE 0, "normal")
       \/ Fatal
    /\ UNCHANGED <<config, argv, repositories, checks, banner, ri, ci, results,
                   allResults, response, masterResponse, requests, discovery,
                   report>>

Next ==
    \/ getRepositoriesDynamic
    \/ getRepositoriesStatic
    \/ selectChecks
    \/ nextCheck
    \/ mainResponse
    \/ masterResponseArrives
    \/ repositoryDone
    \/ reportResults
    \/ writeDone

Spec == Init /\ [][Next]_vars

----------------------------------------------------------------------------
(* processResults on its own: any list of Results, the ones of a run or not *)

ResultPool ==
    UNION {{PassResult(r, DefaultCheck(n), TRUE),
            PassResult(r, DefaultCheck(n), FALSE),
            ErrorResult(r, DefaultCheck(n), FailedToFetch(<<"f">>, NetworkError))} :
           r \in {RA, RB}, n \in {"A", "B"}}

InitAgg ==
    /\ config = [dynamicEnabled |-> FALSE, staticEnabled |-> TRUE,
                 list |-> <<>>, checks |-> <<>>]
    /\ argv = ""
    /\ pc = "report"
    /\ repositories = <<>>
    /\ checks = <<>>
    /\ banner = 0
    /\ ri = 1
    /\ ci = 0
    /\ results = <<>>
    /\ allResults \in SeqsUpTo(ResultPool, MaxResults)
    /\ response = NoResponse
    /\ masterResponse = NoResponse
    /\ requests = {}
    /\ discovery = "none"
    /\ report = <<>>
    /\ exitCode = <<>>
    /\ exitPath = "none"

NextAgg ==
    \/ reportResults
    \/ writeDone

SpecAgg == InitAgg /\ [][NextAgg]_vars

----------------------------------------------------------------------------
(* What the claims speak of, stated apart from the operators above *)

Range(s) == {s[i] : i \in DOMAIN s}
Last(s) == s[Len(s)]

\* every Result produced so far in the run
Produced == allResults \o results

\* the run's result set is complete
RunComplete == pc \in {"report", "awaitWrite"} \/ report # <<>>

\* `repoPath` is the repository of an entry of the check's exclude list
InExcludeList(check, repoPath) ==
    \E e \in Range(check.exclude) : e.repository = repoPath

ResultsOf(res, repoPath, name) ==
    {i \in DOMAIN res : res[i].repository = repoPath /\ res[i].check.name = name}

ContentRequested(repoPath, name) ==
    \E q \in requests : /\ q.to = "raw.githubusercontent.com"
                        /\ q.repo = repoPath
                        /\ q.check = name

\* checkRepository has just finished the check at ci, which was not skipped
JustChecked ==
    /\ pc = "loop"
    /\ ci >= 1
    /\ ~InExcludeList(checks[ci], repositories[ri])

\* a pattern new RegExp rejects
Malformed(pattern) == "(" \in Range(pattern)

\* section 4.1 of the specification: search, inverted after a leading "!"
Occurs(pattern, content) ==
    \E i \in 0..Len(content) :
        /\ i + Len(pattern) <= Len(content)
        /\ SubSeq(content, i + 1, i + Len(pattern)) = pattern
PatternHolds(pattern, content) ==
    IF pattern # <<>> /\ pattern[1] = "!"
    THEN ~Occurs(Tail(pattern), content)
    ELSE Occurs(pattern, content)

----------------------------------------------------------------------------
(* C1: a check whose `enabled` is false yields no Result for any repository
   and is never fetched.  checkAllRepositories filters the checks into
   enabledChecks and then hands the unfiltered list to checkRepository. *)
DisabledCheckNeverRun ==
    /\ \A r \in Range(Produced) : r.check.enabled # FALSE
    /\ \A c \in Range(config.checks) : \A repoPath \in Range(repositories) :
          c.enabled = FALSE => ~ContentRequested(repoPath, c.name)

(* C2: a (check, repository) pair whose repository is in the check's exclude
   list gets no Result and no content request; every other pair of the run
   still gets its one Result. *)
ExcludedPairSkipped ==
    /\ \A r \in Range(Produced) : ~InExcludeList(r.check, r.repository)
    /\ \A c \in Range(checks) : \A repoPath \in Range(repositories) :
          InExcludeList(c, repoPath) => ~ContentRequested(repoPath, c.name)
    /\ RunComplete =>
          \A c \in Range(checks) : \A repoPath \in Range(repositories) :
             ~InExcludeList(c, repoPath) =>
                Cardinality(ResultsOf(allResults, repoPath, c.name)) = 1

\* a finished run where a check is excluded for one repository, ran for
\* another, and another check ran for the excluded repository
ExcludedPairSkippedWitness ==
    /\ RunComplete
    /\ \E c, d \in Range(checks) : \E r1, r2 \in Range(repositories) :
          /\ c.name # d.name
          /\ r1 # r2
          /\ InExcludeList(c, r1)
          /\ ResultsOf(allResults, r1, c.name) = {}
          /\ ResultsOf(allResults, r2, c.name) # {}
          /\ ResultsOf(allResults, r1, d.name) # {}

\* the check just finished got no file content, or its pattern is malformed
CheckFailed ==
    \/ ~(response.st = "ok" \/ masterResponse.st = "ok")
    \/ Malformed(checks[ci].pattern)

(* C3: a fetch failure or a malformed pattern yields one Result for the pair
   with passed = false, error set and requires copied from the check; the run
   ends only before any content request or after the report; and at the end
   every enabled, non-excluded pair has exactly one Result. *)
FailureBecomesResult ==
    /\ (JustChecked /\ CheckFailed) =>
          /\ results # <<>>
          /\ Last(results).repository = repositories[ri]
          /\ Last(results).check = checks[ci]
          /\ ~Last(results).passed
          /\ Last(results).error # <<>>
          /\ Last(results).requires = checks[ci].requires
          /\ Cardinality(ResultsOf(results, repositories[ri], checks[ci].name)) = 1
    /\ pc = "exited" =>
          \/ report # <<>>
          \/ \A q \in requests : q.to # "raw.githubusercontent.com"
    /\ RunComplete =>
          \A c \in Range(checks) : \A repoPath \in Range(repositories) :
             (c.enabled # FALSE /\ ~InExcludeList(c, repoPath)) =>
                Cardinality(ResultsOf(allResults, repoPath, c.name)) = 1

\* a run that exited normally after a fetch failure of the first pair and a
\* malformed pattern of the second, the next repository's check passing
FailureBecomesResultWitness ==
    /\ pc = "exited"
    /\ exitPath = "normal"
    /\ Len(allResults) = 4
    /\ allResults[1].error # <<>>
    /\ ~Malformed(allResults[1].check.pattern)
    /\ allResults[2].error # <<>>
    /\ Malformed(allResults[2].check.pattern)
    /\ allResults[3].passed

\* the entries of the grouped model, each with its place
Entries(grouped) ==
    UNION {UNION {{grouped.byCheck[n][r][k] : k \in DOMAIN grouped.byCheck[n][r]} :
                  r \in DOMAIN grouped.byCheck[n]} :
           n \in DOMAIN grouped.byCheck}

\* the Result set holds a failed Result of check `name` for `repoPath`
FailedFor(res, name, repoPath) ==
    \E r \in Range(res) :
        r.check.name = name /\ r.repository = repoPath /\ ~r.passed

(* C4: in the report of a finished run, the failed-prerequisite list of a
   failing Result F holds the declared prerequisite P of its check exactly
   when the result set holds a failed Result of check P.check for F's
   repository, in the declared order; a passing Result gets the empty list. *)
FailedRequiresResolved ==
    report # <<>> =>
       /\ \A e \in Entries(report[1]) :
             e.failedRequires =
                SelectSeq(e.failure.check.requires,
                          LAMBDA P : FailedFor(allResults, P.check,
                                               e.failure.repository))
       /\ \A r \in Range(allResults) :
             r.passed => getFailedRequires(r, allResults) = <<>>

\* a report where one failure lists its failed prerequisite and another
\* failure of the same check, for a repository where the prerequisite passed,
\* lists none
FailedRequiresResolvedWitness ==
    /\ report # <<>>
    /\ \E e, f \in Entries(report[1]) :
          /\ e.failure.check.name = f.failure.check.name
          /\ e.failure.check.requires # <<>>
          /\ e.failedRequires = e.failure.check.requires
          /\ f.failedRequires = <<>>
          /\ \E r \in Range(allResults) :
                /\ r.check.name = f.failure.check.requires[1].check
                /\ r.repository = f.failure.repository
                /\ r.passed

\* the argument names no configured check
UnknownCheckName == argv # "" /\ \A c \in Range(config.checks) : c.name # argv

(* C5: when the argument names no configured check, the run exits non-zero
   and no network request, discovery or content, is ever issued. *)
UnknownCheckNoRequest ==
    UnknownCheckName =>
       /\ requests = {}
       /\ pc = "exited" => exitCode = <<1>>

(* C6: a failed discovery ends the run only when no static list is enabled:
   with a non-empty static list enabled the run goes on to check the static
   repositories; without one it exits non-zero. *)
DiscoveryFailureFatalOnlyAlone ==
    discovery = "failed" =>
       IF config.staticEnabled /\ config.list # <<>>
       THEN ~(pc = "exited" /\ exitPath = "catch" /\ report = <<>>)
       ELSE pc = "exited" /\ exitCode = <<1>>

(* C7: a run that ends without a fatal error exits with status 1 exactly
   when some Result has passed = false, whatever the cause, and with 0
   otherwise. *)
ExitStatusIffFailure ==
    (pc = "exited" /\ exitPath = "normal") =>
       /\ exitCode \in {<<0>>, <<1>>}
       /\ exitCode = <<1>> <=> \E r \in Range(allResults) : ~r.passed

\* a run that exited with status 1 where every failure is a fetch or
\* evaluation error, next to a passing Result
ExitStatusIffFailureWitness ==
    /\ pc = "exited"
    /\ exitPath = "normal"
    /\ exitCode = <<1>>
    /\ \E r \in Range(allResults) : r.passed
    /\ \E r \in Range(allResults) : ~r.passed
    /\ \A r \in Range(allResults) : ~r.passed => r.error # <<>>

\* both requests were answered without the file
FileAbsentOnBoth == response.st = "notok" /\ masterResponse.st = "notok"

(* C8: the status of a failed Result is "not found" exactly when the file
   was absent on both branches, "error" with the error text for any other
   error, and "pattern not matched" with the pattern when no error is set. *)
FailureStatusClassified ==
    (JustChecked /\ ~Last(results).passed) =>
       LET f == Last(results)
           status == getFailureStatus(f)
       IN /\ status.kind = "not found" <=> FileAbsentOnBoth
          /\ (f.error # <<>> /\ ~FileAbsentOnBoth) =>
                (status.kind = "error" /\ status.message = f.error)
          /\ f.error = <<>> =>
                /\ status.kind = "pattern not matched"
                /\ SubSeq(status.message, 2, Len(status.message) - 1)
                      = f.check.pattern

\* the main branch is asked first, the master branch only once the main
\* branch answered without the file
FallbackOrder ==
    /\ pc = "awaitMain" => (response.st = "none" /\ masterResponse.st = "none")
    /\ pc = "awaitMaster" => (response.st = "notok" /\ masterResponse.st = "none")
    /\ masterResponse.st # "none" => response.st = "notok"

\* the check just finished was answered by the master branch
AnsweredByFallback ==
    JustChecked /\ response.st = "notok" /\ masterResponse.st = "ok"

(* C9, as claimed: the primary branch is asked first and the fallback only
   when the primary has no file; when the fallback has the file, passed is
   the pattern's evaluation on the fallback content and no error is
   recorded. *)
FallbackResultAsClaimed ==
    /\ FallbackOrder
    /\ AnsweredByFallback =>
          /\ Last(results).error = <<>>
          /\ Last(results).passed
                = PatternHolds(checks[ci].pattern, masterResponse.body)

(* C9, amended: the same, for a check whose pattern is a well-formed regular
   expression; with a malformed pattern the Result fails with the regular
   expression's error, which is no fetch error. *)
FallbackResult ==
    /\ FallbackOrder
    /\ AnsweredByFallback =>
          IF Malformed(checks[ci].pattern)
          THEN /\ ~Last(results).passed
               /\ Last(results).error # <<>>
               /\ Last(results).error[1] = "Invalid regular expression: /"
          ELSE /\ Last(results).error = <<>>
               /\ Last(results).passed
                     = PatternHolds(checks[ci].pattern, masterResponse.body)

\* a check answered by the master branch passed on its content
FallbackResultWitness ==
    /\ AnsweredByFallback
    /\ Last(results).passed
    /\ Last(results).error = <<>>
    /\ Occurs(checks[ci].pattern, masterResponse.body)

\* the failed Results of check `name` for `repoPath`, in the order produced
FailuresOf(res, name, repoPath) ==
    SelectSeq(res, LAMBDA r : /\ ~r.passed
                              /\ r.check.name = name
                              /\ r.repository = repoPath)

(* C10: passedCount + failedCount is the number of Results; the buckets are
   those of the (check name, repository) pairs with a failed Result, none
   empty, and each holds exactly the failed Results of its pair, in the order
   they were produced. *)
BucketsPartitionFailures ==
    report # <<>> =>
       LET grouped == report[1]
       IN /\ grouped.passedCount + grouped.failedCount = Len(allResults)
          /\ DOMAIN grouped.byCheck
                = {r.check.name : r \in {q \in Range(allResults) : ~q.passed}}
          /\ \A n \in DOMAIN grouped.byCheck :
                /\ DOMAIN grouped.byCheck[n]
                      = {r.repository :
                           r \in {q \in Range(allResults) :
                                    ~q.passed /\ q.check.name = n}}
                /\ \A repoPath \in DOMAIN grouped.byCheck[n] :
                      LET bucket == grouped.byCheck[n][repoPath]
                      IN /\ bucket # <<>>
                         /\ [k \in DOMAIN bucket |-> bucket[k].failure]
                               = FailuresOf(allResults, n, repoPath)

\* a grouped model with a passed Result and a bucket of two different
\* failures
BucketsPartitionFailuresWitness ==
    /\ report # <<>>
    /\ report[1].passedCount >= 1
    /\ \E e, f \in Entries(report[1]) :
          /\ e.failure # f.failure
          /\ e.failure.check.name = f.failure.check.name
          /\ e.repo = f.repo

====
